---------------------------- MODULE Spec2Model ----------------------------
(***************************************************************************)
(* Model of license_server.py: a Flask license server that keeps every     *)
(* license record in one JSON file (licenses.json).  Each request handler  *)
(* loads the whole file, checks and mutates its private copy, and writes   *)
(* the whole copy back.  Handlers of concurrent requests interleave at the *)
(* file operations: the load, the truncating open of save_db, and the      *)
(* write of the new content.                                               *)
(***************************************************************************)
EXTENDS Integers, Sequences, FiniteSets, TLC

\* ---------------------------------------------------------------- bounds
NumProcs == 2          \* request handlers that may be in flight together
NumKeys == 2           \* license keys the generator and the clients draw from
NumHwids == 2          \* hardware identities the clients draw from
MaxActivations == 2    \* largest max_activations an admin asks for
MaxDate == 1           \* days are 0..MaxDate; the clock stops at MaxDate
MaxRequests == 4       \* requests started in one run of Spec
MaxSeqRequests == 5    \* requests made in one run of SpecSeq
MaxFaultRequests == 2  \* requests started in one run of SpecFault
MaxPayloadRequests == 3  \* requests started in one run of SpecPayload
MaxStoredRequests == 2  \* requests started in one run of SpecStored
MaxLiveRequests == 3  \* requests started in one run of SpecLive

Procs == 1..NumProcs
Keys == 1..NumKeys
Hwids == 1..NumHwids
Dates == 0..MaxDate

\* ------------------------------------------------------------ data model
\* A record of licenses.json.  max is <<n>> for "max_activations": n and
\* <<>> when the record has no such field.  A key that is not in the file
\* maps to NoRec.
NoRec == [exists |-> FALSE, expiry |-> 0, max |-> <<>>, hwids |-> <<>>]

EmptyDb == [k \in Keys |-> NoRec]

\* The request fields the handlers read.  lic = 0 and hwid = 0 stand for a
\* missing or empty license_key / hwid.  For create_license lic is the key
\* the random generator returns, valid says that customer and expiry are
\* both present, and max is <<>> when the payload has no max_activations.
NoReq == [op |-> "None", lic |-> 0, hwid |-> 0, auth |-> FALSE,
          valid |-> FALSE, expiry |-> 0, max |-> <<>>]

ClientReq(o, l, h) ==
    [op |-> o, lic |-> l, hwid |-> h, auth |-> FALSE,
     valid |-> FALSE, expiry |-> 0, max |-> <<>>]

CreateReq(a, v, k, e, m) ==
    [op |-> "Create", lic |-> k, hwid |-> 0, auth |-> a,
     valid |-> v, expiry |-> e, max |-> m]

DeleteReq(a, l) ==
    [op |-> "Delete", lic |-> l, hwid |-> 0, auth |-> a,
     valid |-> FALSE, expiry |-> 0, max |-> <<>>]

ClientOps == {"Activate", "Verify", "Deactivate"}

MaxInputs == {<<>>} \cup {<<n>> : n \in 1..MaxActivations}

Requests ==
    {ClientReq(o, l, h) : o \in ClientOps, l \in {0} \cup Keys, h \in {0} \cup Hwids}
    \cup {CreateReq(a, v, k, e, m) :
            a \in BOOLEAN, v \in BOOLEAN, k \in Keys, e \in Dates, m \in MaxInputs}
    \cup {DeleteReq(a, l) : a \in BOOLEAN, l \in {0} \cup Keys}

NoOut == [outcome |-> "None", val |-> 0]

Success == {"Activated", "AlreadyActive", "Valid", "Deactivated", "Created", "Deleted"}

VARIABLES
    file,     \* the parsed content of licenses.json (when it parses)
    disk,     \* licenses.json is "ok" (it parses), "empty" (truncated and
              \* not yet written) or "garbled" (bytes of two writes)
    today,    \* datetime.date.today()
    pc,       \* per handler: "idle", "open", "write" or "done"
    req,      \* per handler: the request it serves (kept after it returns)
    db,       \* per handler: its private copy of the store, to be saved
    out,      \* per handler: the response (pending until pc = "done")
    started,  \* number of requests started so far
    acked,    \* history: <<license, hwid>> activations acknowledged and not
              \* since deactivated or deleted
    released, \* history: <<license, hwid>> deactivations acknowledged and not
              \* since followed by an acknowledged activation or a deletion
    deleted   \* history: licenses whose deletion was acknowledged and that no
              \* create_license has committed since

vars == <<file, disk, today, pc, req, db, out, started, acked, released, deleted>>

\* json.load raises on a file that does not hold one whole store.
torn == disk # "ok"

\* ------------------------------------------------------- handler helpers
Range(s) == {s[i] : i \in 1..Len(s)}

\* list.remove(x): drops the first occurrence of x.
RemoveFirst(s, x) ==
    LET i == CHOOSE j \in 1..Len(s) :
                 s[j] = x /\ \A k \in 1..(j - 1) : s[k] # x
    IN  SubSeq(s, 1, i - 1) \o SubSeq(s, i + 1, Len(s))

\* record.get("max_activations", default)
GetMax(rec, default) == IF rec.max = <<>> THEN default ELSE rec.max[1]

\* expiry < datetime.date.today()
IsExpired(rec, t) == rec.expiry < t

Result(o, v, s, d) == [outcome |-> o, val |-> v, save |-> s, db |-> d]

\* Variant of the checks before load_db in which delete_license does not
\* compare the admin key.
PreLoadOpenDelete(r) ==
    CASE r.op \in ClientOps ->
           IF r.lic = 0 \/ r.hwid = 0 THEN "InvalidInput" ELSE "None"
      [] r.op = "Create" ->
           IF ~r.auth THEN "Unauthorized"
           ELSE IF ~r.valid THEN "InvalidInput" ELSE "None"
      [] r.op = "Delete" ->
           IF r.lic = 0 THEN "InvalidInput" ELSE "None"
      [] OTHER -> "None"

\* Requests answered before load_db is called.
PreLoad(r) ==
    CASE r.op \in ClientOps ->
           IF r.lic = 0 \/ r.hwid = 0 THEN "InvalidInput" ELSE "None"
      [] r.op = "Create" ->
           IF ~r.auth THEN "Unauthorized"
           ELSE IF ~r.valid THEN "InvalidInput" ELSE "None"
      [] r.op = "Delete" ->
           IF ~r.auth THEN "Unauthorized"
           ELSE IF r.lic = 0 THEN "InvalidInput" ELSE "None"
      [] OTHER -> "None"

\* Variants of the slot allocation with one check changed.
AllocateOffByOne(r, d, t, default, fresh, again, payload) ==
    LET rec == d[r.lic] IN
    IF ~rec.exists THEN Result("NotFound", 0, FALSE, d)
    ELSE IF IsExpired(rec, t) THEN Result("Expired", 0, FALSE, d)
    ELSE IF r.hwid \in Range(rec.hwids)
         THEN Result(again, IF payload THEN Len(rec.hwids) ELSE 0, FALSE, d)
    ELSE IF Len(rec.hwids) > GetMax(rec, default)
         THEN Result("LimitReached", 0, FALSE, d)
    ELSE LET hw == Append(rec.hwids, r.hwid) IN
         Result(fresh, IF payload THEN Len(hw) ELSE 0, TRUE,
                [d EXCEPT ![r.lic].hwids = hw])

AllocateNoMember(r, d, t, default, fresh, again, payload) ==
    LET rec == d[r.lic] IN
    IF ~rec.exists THEN Result("NotFound", 0, FALSE, d)
    ELSE IF IsExpired(rec, t) THEN Result("Expired", 0, FALSE, d)
    ELSE IF Len(rec.hwids) >= GetMax(rec, default)
         THEN Result("LimitReached", 0, FALSE, d)
    ELSE LET hw == Append(rec.hwids, r.hwid) IN
         Result(fresh, IF payload THEN Len(hw) ELSE 0, TRUE,
                [d EXCEPT ![r.lic].hwids = hw])

AllocateMemberFirst(r, d, t, default, fresh, again, payload) ==
    LET rec == d[r.lic] IN
    IF ~rec.exists THEN Result("NotFound", 0, FALSE, d)
    ELSE IF r.hwid \in Range(rec.hwids)
         THEN Result(again, IF payload THEN Len(rec.hwids) ELSE 0, FALSE, d)
    ELSE IF IsExpired(rec, t) THEN Result("Expired", 0, FALSE, d)
    ELSE IF Len(rec.hwids) >= GetMax(rec, default)
         THEN Result("LimitReached", 0, FALSE, d)
    ELSE LET hw == Append(rec.hwids, r.hwid) IN
         Result(fresh, IF payload THEN Len(hw) ELSE 0, TRUE,
                [d EXCEPT ![r.lic].hwids = hw])

\* Variant that appends and saves before it compares the count with the
\* limit.
AllocateAppendFirst(r, d, t, default, fresh, again, payload) ==
    LET rec == d[r.lic] IN
    IF ~rec.exists THEN Result("NotFound", 0, FALSE, d)
    ELSE IF IsExpired(rec, t) THEN Result("Expired", 0, FALSE, d)
    ELSE IF r.hwid \in Range(rec.hwids)
         THEN Result(again, IF payload THEN Len(rec.hwids) ELSE 0, FALSE, d)
    ELSE LET hw == Append(rec.hwids, r.hwid) IN
         IF Len(rec.hwids) >= GetMax(rec, default)
         THEN Result("LimitReached", 0, TRUE, [d EXCEPT ![r.lic].hwids = hw])
         ELSE Result(fresh, IF payload THEN Len(hw) ELSE 0, TRUE,
                     [d EXCEPT ![r.lic].hwids = hw])

\* Variant that compares the count with the limit before it looks for the
\* hwid in the list.
AllocateLimitFirst(r, d, t, default, fresh, again, payload) ==
    LET rec == d[r.lic] IN
    IF ~rec.exists THEN Result("NotFound", 0, FALSE, d)
    ELSE IF IsExpired(rec, t) THEN Result("Expired", 0, FALSE, d)
    ELSE IF Len(rec.hwids) >= GetMax(rec, default)
         THEN Result("LimitReached", 0, FALSE, d)
    ELSE IF r.hwid \in Range(rec.hwids)
         THEN Result(again, IF payload THEN Len(rec.hwids) ELSE 0, FALSE, d)
    ELSE LET hw == Append(rec.hwids, r.hwid) IN
         Result(fresh, IF payload THEN Len(hw) ELSE 0, TRUE,
                [d EXCEPT ![r.lic].hwids = hw])

\* The slot allocation shared by activate and verify, with the default
\* max_activations each of them uses and the name of its success outcome.
Allocate(r, d, t, default, fresh, again, payload) ==
    LET rec == d[r.lic] IN
    IF ~rec.exists THEN Result("NotFound", 0, FALSE, d)
    ELSE IF IsExpired(rec, t) THEN Result("Expired", 0, FALSE, d)
    ELSE IF r.hwid \in Range(rec.hwids)
         THEN Result(again, IF payload THEN Len(rec.hwids) ELSE 0, FALSE, d)
    ELSE IF Len(rec.hwids) >= GetMax(rec, default)
         THEN Result("LimitReached", 0, FALSE, d)
    ELSE LET hw == Append(rec.hwids, r.hwid) IN
         Result(fresh, IF payload THEN Len(hw) ELSE 0, TRUE,
                [d EXCEPT ![r.lic].hwids = hw])

Activate(r, d, t) == Allocate(r, d, t, 1, "Activated", "AlreadyActive", FALSE)

Verify(r, d, t) == Allocate(r, d, t, 2, "Valid", "Valid", TRUE)

\* Variant of deactivate that treats an hwid that is not enrolled as
\* removed: it saves and answers ok.
DeactivateAbsentOk(r, d) ==
    LET rec == d[r.lic] IN
    IF ~rec.exists THEN Result("NotFound", 0, FALSE, d)
    ELSE LET hw == SelectSeq(rec.hwids, LAMBDA x : x # r.hwid) IN
         Result("Deactivated", GetMax(rec, 0) - Len(hw), TRUE,
                [d EXCEPT ![r.lic].hwids = hw])

\* Variant of deactivate that refuses an expired license, as activate and
\* verify do.
DeactivateExpiryGated(r, d) ==
    LET rec == d[r.lic] IN
    IF ~rec.exists THEN Result("NotFound", 0, FALSE, d)
    ELSE IF IsExpired(rec, today) THEN Result("Expired", 0, FALSE, d)
    ELSE IF r.hwid \in Range(rec.hwids)
         THEN LET hw == RemoveFirst(rec.hwids, r.hwid) IN
              Result("Deactivated", GetMax(rec, 0) - Len(hw), TRUE,
                     [d EXCEPT ![r.lic].hwids = hw])
    ELSE Result("NotActive", 0, FALSE, d)

\* Variant of deactivate that answers without calling save_db.
DeactivateNoSave(r, d) ==
    LET rec == d[r.lic] IN
    IF ~rec.exists THEN Result("NotFound", 0, FALSE, d)
    ELSE IF r.hwid \in Range(rec.hwids)
         THEN Result("Deactivated", GetMax(rec, 0) - Len(rec.hwids) + 1, FALSE, d)
    ELSE Result("NotActive", 0, FALSE, d)

\* deactivate: record["max_activations"] is read after save_db; a record
\* without the field raises KeyError once the file is written.
Deactivate(r, d) ==
    LET rec == d[r.lic] IN
    IF ~rec.exists THEN Result("NotFound", 0, FALSE, d)
    ELSE IF r.hwid \in Range(rec.hwids)
         THEN LET hw == RemoveFirst(rec.hwids, r.hwid) IN
              IF rec.max = <<>>
              THEN Result("ServerError", 0, TRUE, [d EXCEPT ![r.lic].hwids = hw])
              ELSE Result("Deactivated", rec.max[1] - Len(hw), TRUE,
                          [d EXCEPT ![r.lic].hwids = hw])
    ELSE Result("NotActive", 0, FALSE, d)

\* create_license: the generated key is stored without looking it up first.
Create(r, d) ==
    Result("Created", r.lic, TRUE,
           [d EXCEPT ![r.lic] =
               [exists |-> TRUE, expiry |-> r.expiry,
                max |-> IF r.max = <<>> THEN <<1>> ELSE r.max,
                hwids |-> <<>>]])

Delete(r, d) ==
    IF ~d[r.lic].exists THEN Result("NotFound", 0, FALSE, d)
    ELSE Result("Deleted", 0, TRUE, [d EXCEPT ![r.lic] = NoRec])

\* What a handler decides from the store it loaded.
Handle(r, d, t) ==
    CASE r.op = "Activate" -> Activate(r, d, t)
      [] r.op = "Verify" -> Verify(r, d, t)
      [] r.op = "Deactivate" -> Deactivate(r, d)
      [] r.op = "Create" -> Create(r, d)
      [] OTHER -> Delete(r, d)

\* ------------------------------------------------------- history helpers
\* The acknowledged activations after handler request r returns outcome o.
AckAfter(r, o, a) ==
    IF r.op \in {"Activate", "Verify"} /\ o \in Success THEN a \cup {<<r.lic, r.hwid>>}
    ELSE IF r.op = "Deactivate" /\ o = "Deactivated" THEN a \ {<<r.lic, r.hwid>>}
    ELSE IF r.op = "Delete" /\ o = "Deleted" THEN {x \in a : x[1] # r.lic}
    ELSE a

ReleasedAfter(r, o, s) ==
    IF r.op = "Deactivate" /\ o = "Deactivated" THEN s \cup {<<r.lic, r.hwid>>}
    ELSE IF r.op \in {"Activate", "Verify"} /\ o \in Success THEN s \ {<<r.lic, r.hwid>>}
    ELSE IF r.op = "Delete" /\ o = "Deleted" THEN {x \in s : x[1] # r.lic}
    ELSE s

DeletedAfter(r, o, s) ==
    IF r.op = "Delete" /\ o = "Deleted" THEN s \cup {r.lic}
    ELSE IF r.op = "Create" /\ o = "Created" THEN s \ {r.lic}
    ELSE s

\* ---------------------------------------------------------------- steps
Init ==
    /\ file = EmptyDb
    /\ disk = "ok"
    /\ today = 0
    /\ pc = [p \in Procs |-> "idle"]
    /\ req = [p \in Procs |-> NoReq]
    /\ db = [p \in Procs |-> EmptyDb]
    /\ out = [p \in Procs |-> NoOut]
    /\ started = 0
    /\ acked = {}
    /\ released = {}
    /\ deleted = {}

\* The handler returns without having written anything.
Return(p, r, o, v) ==
    /\ pc' = [pc EXCEPT ![p] = "done"]
    /\ req' = [req EXCEPT ![p] = r]
    /\ out' = [out EXCEPT ![p] = [outcome |-> o, val |-> v]]
    /\ db' = [db EXCEPT ![p] = EmptyDb]
    /\ acked' = AckAfter(r, o, acked)
    /\ released' = ReleasedAfter(r, o, released)
    /\ deleted' = DeletedAfter(r, o, deleted)

\* A request arrives; the handler validates it, loads the store and runs
\* up to its first write to the file (or to its response, if it has none).
\* json.load of a torn file raises, which Flask answers with a 500.
Begin(p, r) ==
    /\ pc[p] \in {"idle", "done"}
    /\ started < MaxRequests
    /\ started' = started + 1
    /\ UNCHANGED <<file, disk, today>>
    /\ IF PreLoad(r) # "None" THEN Return(p, r, PreLoad(r), 0)
       ELSE IF torn THEN Return(p, r, "ServerError", 0)
       ELSE LET res == Handle(r, file, today) IN
            IF ~res.save THEN Return(p, r, res.outcome, res.val)
            ELSE /\ pc' = [pc EXCEPT ![p] = "open"]
                 /\ req' = [req EXCEPT ![p] = r]
                 /\ db' = [db EXCEPT ![p] = res.db]
                 /\ out' = [out EXCEPT ![p] = [outcome |-> res.outcome, val |-> res.val]]
                 /\ UNCHANGED <<acked, released, deleted>>

\* Variant of the truncating open that takes an exclusive lock on the file:
\* it waits while another handler is between its open and its close.
OpenLocked(p) ==
    /\ pc[p] = "open"
    /\ \A q \in Procs \ {p} : pc[q] # "write"
    /\ pc' = [pc EXCEPT ![p] = "write"]
    /\ disk' = "empty"
    /\ file' = EmptyDb
    /\ UNCHANGED <<today, req, db, out, started, acked, released, deleted>>

\* save_db: open(LICENSE_DB, "w") truncates the file.
Open(p) ==
    /\ pc[p] = "open"
    /\ pc' = [pc EXCEPT ![p] = "write"]
    /\ disk' = "empty"
    /\ file' = EmptyDb
    /\ UNCHANGED <<today, req, db, out, started, acked, released, deleted>>

\* save_db: json.dump writes the handler's copy from the start of the file
\* and the file is closed; the handler then builds its response.  Written
\* into the file as this handler truncated it, the copy is the new content.
\* When another handler has written since, the bytes of the longer of the
\* two remain after those of the copy: the file holds the copy (clean) or
\* does not parse any more.
Write(p, clean) ==
    /\ pc[p] = "write"
    /\ clean \/ disk # "empty"
    /\ file' = IF clean THEN db[p] ELSE EmptyDb
    /\ disk' = IF clean THEN "ok" ELSE "garbled"
    /\ pc' = [pc EXCEPT ![p] = "done"]
    /\ db' = [db EXCEPT ![p] = EmptyDb]
    /\ acked' = AckAfter(req[p], out[p].outcome, acked)
    /\ released' = ReleasedAfter(req[p], out[p].outcome, released)
    /\ deleted' = DeletedAfter(req[p], out[p].outcome, deleted)
    /\ UNCHANGED <<today, req, out, started>>

\* Midnight passes.
Tick ==
    /\ today < MaxDate
    /\ today' = today + 1
    /\ UNCHANGED <<file, disk, pc, req, db, out, started, acked, released, deleted>>

\* The requests that reach load_db.  A request that is rejected before
\* load_db touches nothing that is shared; SpecSeq serves those as well.
Served == {r \in Requests : PreLoad(r) = "None"}

Next ==
    \/ \E p \in Procs, r \in Served : Begin(p, r)
    \/ \E p \in Procs : Open(p)
    \/ \E p \in Procs, clean \in BOOLEAN : Write(p, clean)
    \/ Tick

Spec == Init /\ [][Next]_vars

\* ------------------------------------------- one request after the other
\* The handler that serves the requests of SpecSeq.
Worker == CHOOSE p \in Procs : \A q \in Procs : p <= q

\* A whole request served while no other handler is in flight: validation,
\* load_db, the handler's decision, save_db and the response.
SeqServe(r) ==
    /\ \A p \in Procs : pc[p] \in {"idle", "done"}
    /\ ~torn
    /\ started' = started + 1
    /\ pc' = [pc EXCEPT ![Worker] = "done"]
    /\ req' = [req EXCEPT ![Worker] = r]
    /\ LET res == IF PreLoad(r) # "None"
                  THEN Result(PreLoad(r), 0, FALSE, file)
                  ELSE Handle(r, file, today)
       IN  /\ file' = IF res.save THEN res.db ELSE file
           /\ out' = [out EXCEPT ![Worker] = [outcome |-> res.outcome, val |-> res.val]]
           /\ acked' = AckAfter(r, res.outcome, acked)
           /\ released' = ReleasedAfter(r, res.outcome, released)
           /\ deleted' = DeletedAfter(r, res.outcome, deleted)
    /\ UNCHANGED <<disk, today, db>>

SeqCall(r) == started < MaxSeqRequests /\ SeqServe(r)

SeqNext ==
    \/ \E r \in Requests : SeqCall(r)
    \/ Tick

SpecSeq == Init /\ [][SeqNext]_vars

\* ------------------------------------------------- two racing activations
\* A store holding one live license with no activation yet.
RaceInit ==
    /\ \E k \in Keys, m \in 1..MaxActivations, e \in Dates :
          file = [EmptyDb EXCEPT ![k] =
                     [exists |-> TRUE, expiry |-> e, max |-> <<m>>, hwids |-> <<>>]]
    /\ disk = "ok"
    /\ today = 0
    /\ pc = [p \in Procs |-> "idle"]
    /\ req = [p \in Procs |-> NoReq]
    /\ db = [p \in Procs |-> EmptyDb]
    /\ out = [p \in Procs |-> NoOut]
    /\ started = 0
    /\ acked = {}
    /\ released = {}
    /\ deleted = {}

\* Each handler serves one /activate.
RaceBegin(p, k, h) ==
    /\ pc[p] = "idle"
    /\ Begin(p, ClientReq("Activate", k, h))

RaceNext ==
    \/ \E p \in Procs, k \in Keys, h \in Hwids : RaceBegin(p, k, h)
    \/ \E p \in Procs : Open(p)
    \/ \E p \in Procs, clean \in BOOLEAN : Write(p, clean)

SpecRace == RaceInit /\ [][RaceNext]_vars

\* ------------------------------------------- one client session, in order
\* The hwids of a session: one more than the store's handlers are otherwise
\* given, so that a two-slot license can be asked for a third.
SessionHwids == Hwids \cup {NumHwids + 1}

\* A store holding one live two-slot license with no activation yet.
SessionInit ==
    /\ \E k \in Keys, e \in Dates :
          file = [EmptyDb EXCEPT ![k] =
                     [exists |-> TRUE, expiry |-> e, max |-> <<2>>, hwids |-> <<>>]]
    /\ disk = "ok"
    /\ today = 0
    /\ pc = [p \in Procs |-> "idle"]
    /\ req = [p \in Procs |-> NoReq]
    /\ db = [p \in Procs |-> EmptyDb]
    /\ out = [p \in Procs |-> NoOut]
    /\ started = 0
    /\ acked = {}
    /\ released = {}
    /\ deleted = {}

\* The session's requests, one after the other: /activate of a first hwid,
\* /verify of it, /activate of a second and of a third hwid, /deactivate of
\* the first.
SessionCall(k, h) ==
    /\ file[k].exists
    /\ LET hw == file[k].hwids IN
       CASE started = 0 -> SeqServe(ClientReq("Activate", k, h))
         [] started = 1 -> h = hw[1] /\ SeqServe(ClientReq("Verify", k, h))
         [] started \in {2, 3} ->
                h \notin Range(hw) /\ SeqServe(ClientReq("Activate", k, h))
         [] started = 4 -> h = hw[1] /\ SeqServe(ClientReq("Deactivate", k, h))
         [] OTHER -> FALSE

\* Midnight passes, while the license is still valid the day after.
SessionTick ==
    /\ \A k \in Keys : file[k].exists => ~IsExpired(file[k], today + 1)
    /\ Tick

SessionNext ==
    \/ \E k \in Keys, h \in SessionHwids : SessionCall(k, h)
    \/ SessionTick

SpecSession == SessionInit /\ [][SessionNext]_vars

\* ------------------------------------ any max_activations in the payload
\* create_license takes payload.get("max_activations", 1) as it comes: the
\* payloads here also carry zero and a negative number.
PayloadInputs == MaxInputs \cup {<<n>> : n \in -1..0}

PayloadRequests ==
    Requests \cup {CreateReq(TRUE, TRUE, k, e, m) :
                     k \in Keys, e \in Dates, m \in PayloadInputs}

PayloadCall(r) == started < MaxPayloadRequests /\ SeqServe(r)

PayloadNext ==
    \/ \E r \in PayloadRequests : PayloadCall(r)
    \/ Tick

SpecPayload == Init /\ [][PayloadNext]_vars

\* ------------------------------------------- a store found at start-up
\* The records licenses.json may hold when the server starts: written by
\* create_license, or by hand without "max_activations" (the handlers read
\* the field with record.get and a default).  Each lists distinct hwids, no
\* more than its max_activations, and no more than the smaller of the two
\* defaults when it has none.
StoredRecords ==
    {rec \in [exists : {TRUE}, expiry : Dates, max : MaxInputs,
              hwids : UNION {[1..n -> Hwids] : n \in 0..MaxActivations}] :
        /\ Cardinality(Range(rec.hwids)) = Len(rec.hwids)
        /\ Len(rec.hwids) <= GetMax(rec, 1)}

StoredInit ==
    /\ \E k \in Keys, rec \in StoredRecords : file = [EmptyDb EXCEPT ![k] = rec]
    /\ disk = "ok"
    /\ today = 0
    /\ pc = [p \in Procs |-> "idle"]
    /\ req = [p \in Procs |-> NoReq]
    /\ db = [p \in Procs |-> EmptyDb]
    /\ out = [p \in Procs |-> NoOut]
    /\ started = 0
    /\ acked = {}
    /\ released = {}
    /\ deleted = {}

StoredCall(o, k, h) ==
    /\ started < MaxStoredRequests
    /\ SeqServe(ClientReq(o, k, h))

StoredNext ==
    \/ \E o \in ClientOps, k \in Keys, h \in Hwids : StoredCall(o, k, h)
    \/ Tick

SpecStored == StoredInit /\ [][StoredNext]_vars

\* ------------------------------------------- handlers that keep running
\* The server's threads are scheduled fairly: a handler that can take its
\* next step (the open or the write and close of save_db) takes it.
LiveNext ==
    \/ \E p \in Procs, r \in Served : started < MaxLiveRequests /\ Begin(p, r)
    \/ \E p \in Procs : Open(p)
    \/ \E p \in Procs, clean \in BOOLEAN : Write(p, clean)
    \/ Tick

Fairness ==
    \A p \in Procs :
        /\ WF_vars(Open(p))
        /\ WF_vars(\E clean \in BOOLEAN : Write(p, clean))

SpecLive == Init /\ [][LiveNext]_vars /\ Fairness

\* ------------------------------------------------------ a failing store
\* save_db: open(LICENSE_DB, "w") raises; the except clause prints the error
\* and the handler goes on to build its response.
FailOpen(p) ==
    /\ pc[p] = "open"
    /\ pc' = [pc EXCEPT ![p] = "done"]
    /\ db' = [db EXCEPT ![p] = EmptyDb]
    /\ acked' = AckAfter(req[p], out[p].outcome, acked)
    /\ released' = ReleasedAfter(req[p], out[p].outcome, released)
    /\ deleted' = DeletedAfter(req[p], out[p].outcome, deleted)
    /\ UNCHANGED <<file, disk, today, req, out, started>>

\* save_db: json.dump raises after the file was opened; the file is closed
\* with nothing or with a part of the copy written (partial), the error is
\* printed and the handler builds its response.
FailWrite(p, partial) ==
    /\ pc[p] = "write"
    /\ disk' = IF partial THEN "garbled" ELSE disk
    /\ file' = IF partial THEN EmptyDb ELSE file
    /\ pc' = [pc EXCEPT ![p] = "done"]
    /\ db' = [db EXCEPT ![p] = EmptyDb]
    /\ acked' = AckAfter(req[p], out[p].outcome, acked)
    /\ released' = ReleasedAfter(req[p], out[p].outcome, released)
    /\ deleted' = DeletedAfter(req[p], out[p].outcome, deleted)
    /\ UNCHANGED <<today, req, out, started>>

FaultNext ==
    \/ \E p \in Procs, r \in Served : started < MaxFaultRequests /\ Begin(p, r)
    \/ \E p \in Procs : Open(p)
    \/ \E p \in Procs, clean \in BOOLEAN : Write(p, clean)
    \/ \E p \in Procs : FailOpen(p)
    \/ \E p \in Procs, partial \in BOOLEAN : FailWrite(p, partial)
    \/ Tick

SpecFault == Init /\ [][FaultNext]_vars

\* ================================================================ claims
W == Worker

Distinct(s) == Cardinality(Range(s)) = Len(s)

\* C1: whenever licenses.json holds a store, every record in it has at most
\* max_activations hardware identities, whatever the interleaving of the
\* handlers (checked under Spec).
SlotLimit ==
    ~torn => \A k \in Keys :
                file[k].exists =>
                    /\ file[k].max # <<>>
                    /\ Len(file[k].hwids) <= file[k].max[1]

\* Two /activate for different hwids of a one-slot license both answered
\* "activated", and the stored record holds one hwid.
SlotLimitWitness ==
    \E p, q \in Procs :
        /\ p # q /\ pc[p] = "done" /\ pc[q] = "done"
        /\ req[p].op = "Activate" /\ req[q].op = "Activate"
        /\ req[p].lic = req[q].lic /\ req[p].hwid # req[q].hwid
        /\ out[p].outcome = "Activated" /\ out[q].outcome = "Activated"
        /\ ~torn /\ file[req[p].lic].exists
        /\ file[req[p].lic].max = <<1>>
        /\ Len(file[req[p].lic].hwids) = 1

\* C2: of two /activate that each served a different hwid of the same
\* non-expired one-slot license, empty before both, and that both read the
\* store, exactly one answers Activated and the other LimitReached (checked
\* under SpecRace, where these are the only requests).
RaceExactlyOne ==
    \A p, q \in Procs :
        ( /\ p # q /\ pc[p] = "done" /\ pc[q] = "done"
          /\ req[p].lic = req[q].lic /\ req[p].hwid # req[q].hwid
          /\ out[p].outcome # "ServerError" /\ out[q].outcome # "ServerError"
          /\ ~torn /\ file[req[p].lic].exists
          /\ file[req[p].lic].max = <<1>> )
        => {out[p].outcome, out[q].outcome} = {"Activated", "LimitReached"}

\* C3: whenever licenses.json holds a store, no record lists a hardware
\* identity twice (checked under Spec).
NoDuplicates ==
    ~torn => \A k \in Keys : Distinct(file[k].hwids)

\* Two /activate for the same license and hwid both appended it to their copy
\* and both answered "activated"; the stored record lists the hwid once.
NoDuplicatesWitness ==
    \E p, q \in Procs :
        /\ p # q /\ pc[p] = "done" /\ pc[q] = "done"
        /\ req[p] = req[q] /\ req[p].op = "Activate"
        /\ out[p].outcome = "Activated" /\ out[q].outcome = "Activated"
        /\ ~torn /\ file[req[p].lic].exists
        /\ req[p].hwid \in Range(file[req[p].lic].hwids)

\* C4: an acknowledged activation of h on L that no Deactivate(L, h) and no
\* DeleteLicense(L) has since ended is in the stored record of L (checked
\* under Spec).
AckedStays ==
    ~torn => \A x \in acked :
                file[x[1]].exists /\ x[2] \in Range(file[x[1]].hwids)

\* C5: a handler whose save_db fails does not answer with its success
\* outcome but with StoreUnavailable (checked under SpecFault).
StoreFailureReported ==
    [][\A p \in Procs :
          (FailOpen(p) \/ \E partial \in BOOLEAN : FailWrite(p, partial))
             => out'[p].outcome = "StoreUnavailable"]_vars

\* C6: /activate and /verify with a license key and hwid, for a stored
\* license whose expiry is before today, answer Expired and leave the store
\* as it was, enrolled hwid or not, free slot or not (checked under SpecSeq).
ExpiryGate ==
    [][( /\ started' # started
         /\ req'[W].op \in {"Activate", "Verify"}
         /\ req'[W].lic \in Keys /\ req'[W].hwid \in Hwids
         /\ file[req'[W].lic].exists
         /\ file[req'[W].lic].expiry < today )
       => (out'[W].outcome = "Expired" /\ file' = file)]_vars

\* An enrolled hwid of an expired license was answered Expired.
ExpiryGateWitness ==
    /\ req[W].op \in {"Activate", "Verify"}
    /\ out[W].outcome = "Expired"
    /\ req[W].hwid \in Range(file[req[W].lic].hwids)

\* C7: on a non-expired license, /activate of a hwid that is not enrolled
\* while a slot is free answers Activated and appends the hwid; the same
\* /activate made again right after answers AlreadyActive, a success with
\* the same payload, and leaves the store as it was (checked under SpecSeq).
IdempotentActivate ==
    [][( /\ started' # started
         /\ req'[W].op = "Activate"
         /\ req'[W].lic \in Keys /\ req'[W].hwid \in Hwids
         /\ file[req'[W].lic].exists
         /\ ~(file[req'[W].lic].expiry < today) )
       => LET l == req'[W].lic
              h == req'[W].hwid
          IN  /\ ( /\ h \notin Range(file[l].hwids)
                   /\ file[l].max # <<>>
                   /\ Len(file[l].hwids) < file[l].max[1] )
                 => /\ out'[W].outcome = "Activated"
                    /\ file' = [file EXCEPT ![l].hwids = Append(file[l].hwids, h)]
              /\ (req[W] = req'[W] /\ out[W].outcome = "Activated")
                 => /\ out'[W].outcome = "AlreadyActive"
                    /\ out'[W].val = out[W].val
                    /\ file' = file]_vars

\* The third request of a run was an /activate answered AlreadyActive.
IdempotentActivateWitness ==
    /\ started = 3
    /\ req[W].op = "Activate"
    /\ out[W].outcome = "AlreadyActive"
    /\ file[req[W].lic].hwids = <<req[W].hwid>>

\* C8: a license whose deletion was acknowledged, and that no create_license
\* has committed since, is not in the store (checked under Spec).
DeletedStays ==
    ~torn => \A k \in deleted : ~file[k].exists

\* C9: the key under which create_license commits a record is not the key
\* of a record of the store (checked under SpecSeq).
CreateNeverCollides ==
    [][( /\ started' # started
         /\ req'[W].op = "Create"
         /\ out'[W].outcome = "Created" )
       => ~file[req'[W].lic].exists]_vars

\* C10: on a non-expired one-slot license, after a /deactivate answered
\* Deactivated, an /activate of another hwid answers Activated and the
\* stored record then lists exactly that hwid (checked under SpecSeq).
DeactivateFreesSlot ==
    [][( /\ started' # started
         /\ req[W].op = "Deactivate" /\ out[W].outcome = "Deactivated"
         /\ req'[W].op = "Activate"
         /\ req'[W].lic = req[W].lic
         /\ req'[W].hwid \in Hwids \ {req[W].hwid}
         /\ file[req[W].lic].max = <<1>>
         /\ ~(file[req[W].lic].expiry < today) )
       => /\ out'[W].outcome = "Activated"
          /\ file'[req[W].lic].hwids = <<req'[W].hwid>>]_vars

\* The fourth request of a run, an /activate on a one-slot license that had
\* its slot taken and freed, was answered Activated.
DeactivateFreesSlotWitness ==
    /\ started = 4
    /\ req[W].op = "Activate" /\ out[W].outcome = "Activated"
    /\ file[req[W].lic].max = <<1>>
    /\ file[req[W].lic].hwids = <<req[W].hwid>>
    /\ acked = {<<req[W].lic, req[W].hwid>>}
    /\ \E h \in Hwids \ {req[W].hwid} : released = {<<req[W].lic, h>>}

\* C11: a load_db that runs while another handler saves reads one whole
\* store, the one before the save or the one after it: no handler's
\* json.load fails on a truncated or half-written file (checked under Spec,
\* where every record has max_activations, so that a failing json.load is
\* the only source of a server error).
NoTornRead ==
    \A p \in Procs : ~(pc[p] = "done" /\ out[p].outcome = "ServerError")

\* C12: a /deactivate of an hwid that the license does not list answers
\* NotActive and leaves licenses.json as it was; in particular the second of
\* two consecutive /deactivate of one enrolled (license, hwid) pair answers
\* NotActive after the first answered Deactivated, and the list is the same
\* after both (checked under SpecSeq).
DeactivateTwice ==
    [][( /\ started' # started
         /\ req'[W].op = "Deactivate"
         /\ req'[W].lic \in Keys /\ req'[W].hwid \in Hwids
         /\ file[req'[W].lic].exists
         /\ \/ req'[W].hwid \notin Range(file[req'[W].lic].hwids)
            \/ /\ req[W] = req'[W]
               /\ out[W].outcome = "Deactivated" )
       => /\ out'[W].outcome = "NotActive"
          /\ file' = file]_vars

\* A /deactivate of a pair that an earlier /deactivate released was
\* answered NotActive.
DeactivateTwiceWitness ==
    /\ req[W].op = "Deactivate"
    /\ out[W].outcome = "NotActive"
    /\ <<req[W].lic, req[W].hwid>> \in released
    /\ file[req[W].lic].exists

\* C13: on a fresh, non-expired license with max_activations = 2, served one
\* request after the other: /activate A answers Activated, /verify A answers
\* Valid with activations_used = 1, /activate B answers Activated,
\* /activate C answers LimitReached, and /deactivate A answers Deactivated
\* with remaining_activations = 1 (checked under SpecSession).
SessionOutcomes ==
    /\ started = 1 => out[W].outcome = "Activated"
    /\ started = 2 => out[W] = [outcome |-> "Valid", val |-> 1]
    /\ started = 3 => out[W].outcome = "Activated"
    /\ started = 4 => out[W].outcome = "LimitReached"
    /\ started = 5 => out[W] = [outcome |-> "Deactivated", val |-> 1]

\* The session ran to its end: the first hwid is released, the second one
\* holds its slot and the third one never got one.
SessionOutcomesWitness ==
    /\ started = 5
    /\ req[W].op = "Deactivate" /\ out[W].outcome = "Deactivated"
    /\ \E k \in Keys, a, b, c \in SessionHwids :
          /\ Cardinality({a, b, c}) = 3
          /\ file[k].hwids = <<b>>
          /\ released = {<<k, a>>}
          /\ acked = {<<k, b>>}

\* C14: a /create_license or /delete_license whose admin key is not the
\* server's is answered Unauthorized and leaves licenses.json as it was,
\* whatever its other fields are (checked under SpecSeq).
AdminGate ==
    [][( /\ started' # started
         /\ req'[W].op \in {"Create", "Delete"}
         /\ ~req'[W].auth )
       => /\ out'[W].outcome = "Unauthorized"
          /\ file' = file]_vars

\* A /delete_license without the admin key, naming a license of the store,
\* was answered Unauthorized and the license is still there.
AdminGateWitness ==
    /\ req[W].op = "Delete" /\ ~req[W].auth
    /\ req[W].lic \in Keys
    /\ out[W].outcome = "Unauthorized"
    /\ file[req[W].lic].exists

\* C15: every record that create_license writes has a max_activations of
\* at least 1 (1 when the payload omits it) and an empty activated_hwids,
\* for every payload the handler accepts (checked under SpecPayload).
CreatedPositive ==
    [][( /\ started' # started
         /\ req'[W].op = "Create"
         /\ out'[W].outcome = "Created" )
       => LET rec == file'[req'[W].lic] IN
          /\ rec.exists
          /\ rec.max # <<>> /\ rec.max[1] >= 1
          /\ rec.max = (IF req'[W].max = <<>> THEN <<1>> ELSE rec.max)
          /\ rec.hwids = <<>>]_vars

\* C16: an /activate, /verify or /deactivate answered InvalidInput,
\* NotFound, Expired or LimitReached has written nothing: licenses.json is
\* after the request what it was before (checked under SpecSeq).
RejectionsKeepStore ==
    [][( /\ started' # started
         /\ req'[W].op \in ClientOps
         /\ out'[W].outcome \in {"InvalidInput", "NotFound", "Expired", "LimitReached"} )
       => file' = file]_vars

\* A /verify of a new hwid on a full, non-expired license was answered
\* LimitReached.
RejectionsKeepStoreWitness ==
    /\ req[W].op = "Verify"
    /\ out[W].outcome = "LimitReached"
    /\ req[W].hwid \notin Range(file[req[W].lic].hwids)
    /\ Len(file[req[W].lic].hwids) = file[req[W].lic].max[1]

\* The outcome classes of a slot allocation: the hwid holds a slot, or the
\* reason why it does not.
SlotClass(o) == IF o \in {"Activated", "AlreadyActive", "Valid"} THEN "Enrolled" ELSE o

\* C17: for every stored record, with or without a max_activations field,
\* and every hwid, /verify and /activate decide alike: same outcome class
\* and same resulting activated_hwids (checked under SpecStored).
SamePolicy ==
    \A k \in Keys, h \in Hwids :
        LET a == Activate(ClientReq("Activate", k, h), file, today)
            v == Verify(ClientReq("Verify", k, h), file, today)
        IN  /\ SlotClass(a.outcome) = SlotClass(v.outcome)
            /\ a.db[k].hwids = v.db[k].hwids

\* C18: /activate checks in this order: an empty license_key or hwid is
\* InvalidInput before any lookup, an unknown license is NotFound, an
\* expired one is Expired whether or not the hwid is enrolled, and an
\* enrolled hwid is AlreadyActive even when every slot is taken (checked
\* under SpecSeq).
ActivateOrder ==
    [][( /\ started' # started
         /\ req'[W].op = "Activate" )
       => LET r == req'[W]
              rec == file[r.lic]
          IN  out'[W].outcome =
                IF r.lic = 0 \/ r.hwid = 0 THEN "InvalidInput"
                ELSE IF ~rec.exists THEN "NotFound"
                ELSE IF rec.expiry < today THEN "Expired"
                ELSE IF r.hwid \in Range(rec.hwids) THEN "AlreadyActive"
                ELSE IF Len(rec.hwids) >= rec.max[1] THEN "LimitReached"
                ELSE "Activated"]_vars

\* An /activate of an enrolled hwid on a non-expired license with every
\* slot taken was answered AlreadyActive.
ActivateOrderWitness ==
    /\ req[W].op = "Activate"
    /\ out[W].outcome = "AlreadyActive"
    /\ req[W].hwid \in Range(file[req[W].lic].hwids)
    /\ Len(file[req[W].lic].hwids) = file[req[W].lic].max[1]
    /\ ~(file[req[W].lic].expiry < today)

\* C19: /deactivate does not look at the expiry date: on an expired license
\* a /deactivate of an enrolled hwid answers Deactivated and removes that
\* hwid and no other from the list, the rest of the store staying as it
\* was; no /deactivate is answered Expired (checked under SpecSeq).
DeactivateIgnoresExpiry ==
    [][( /\ started' # started
         /\ req'[W].op = "Deactivate" )
       => /\ out'[W].outcome # "Expired"
          /\ LET k == req'[W].lic
                 h == req'[W].hwid
             IN  ( /\ k \in Keys /\ h \in Hwids
                   /\ file[k].exists
                   /\ file[k].expiry < today
                   /\ h \in Range(file[k].hwids) )
                 => /\ out'[W].outcome = "Deactivated"
                    /\ file' = [file EXCEPT ![k].hwids =
                                  SelectSeq(file[k].hwids, LAMBDA x : x # h)]]_vars

\* A /deactivate on an expired license holding two hwids was answered
\* Deactivated and the other hwid is still enrolled.
DeactivateIgnoresExpiryWitness ==
    /\ req[W].op = "Deactivate"
    /\ out[W].outcome = "Deactivated"
    /\ file[req[W].lic].expiry < today
    /\ Len(file[req[W].lic].hwids) = 1
    /\ req[W].hwid \notin Range(file[req[W].lic].hwids)

\* C20: no handler blocks: a handler that is inside save_db can always take
\* its next step, whatever the other handlers are doing, and under fair
\* scheduling every request that was started is answered (checked under
\* SpecLive).
NoBlocking ==
    /\ [](\A p \in Procs :
            /\ pc[p] = "open" => ENABLED Open(p)
            /\ pc[p] = "write" => ENABLED (\E clean \in BOOLEAN : Write(p, clean)))
    /\ \A p \in Procs : (pc[p] \in {"open", "write"}) ~> (pc[p] = "done")

\* Two handlers are inside save_db at once: one has truncated the file and
\* the other is about to.
NoBlockingWitness ==
    \E p, q \in Procs : pc[p] = "write" /\ pc[q] = "open"

=============================================================================
